---- MODULE Spec2Model ----
(***************************************************************************)
(* EnhancedBilletDB (src/billet-db.js): the clients object store, the      *)
(* in-memory sync queue and its drain loop, the periodic sweep, forced     *)
(* synchronisation, inbound admin updates, clearAllData and resetDatabase. *)
(*                                                                         *)
(* Execution model: one JavaScript event loop.  A step of the model is the *)
(* code that runs between two suspension points (the completion of an      *)
(* IndexedDB request, of the simulated network request, or of a timer).    *)
(* Storage requests do not fail in this model.                             *)
(***************************************************************************)
EXTENDS Integers, Sequences, FiniteSets, TLC

\* ---------------------------------------------------------------- bounds
MaxTime == 2        \* Date.now() takes the values 1..MaxTime
MaxItems == 2       \* enqueueForSync is called at most MaxItems times
FallbackCap == 2    \* capacity of the fallback cache (500 in saveToFallback)
MaxPuts == 4        \* saveToFallback is called at most MaxPuts times by PutFallback
MaxCount == 2       \* calls counted by a counter of the metrics tracker
MaxLen == 3         \* length of a sensitive field value

\* ------------------------------------------------------------ value sets
Procs == {"s1", "s2"}               \* concurrent callers of saveClient
LocalNames == {"A"}                 \* nom1 of the records saved here
RemoteNames == {"B"}                \* nom1 of the inbound records
Types == {"unite", "couple"}
Suffixes == {"x", "y"}              \* values of Math.random().toString(36).substr(2, 9)
Times == 1..MaxTime
NoId == <<>>                        \* client.id absent
RemoteIds == {<<"UNI", 0, "x">>}    \* an id generated on another device
CacheIds == RemoteIds \cup {<<"UNI", 0, "y">>, <<"CPL", 0, "x">>}  \* ids of earlier sessions

Null == 0                           \* syncedAt: null
maxRetries == 3                     \* this.maxRetries


VARIABLES
  clients,      \* the "clients" object store: a set of records, keyPath id
  syncQueue,    \* this.syncQueue: sequence of references into items
  items,        \* the syncItem objects ever created, by reference
  isSyncing,    \* this.isSyncing
  pc,           \* per caller: where its saveClient / drain stands
  cur,          \* per caller: the local syncItem of its drain loop
  now,          \* Date.now()
  updPending,   \* handleClientUpdate between getClient and saveClientDirect
  forceBatch,   \* forceFullSync: the unsynced records being delivered
  clearPc,      \* clearAllData between clearStore("clients") and the end
  last,         \* history: the operation that made the last step
  fallback,     \* localStorage bielleterie_clients_fallback: sequence of records
  syncEvent,    \* localStorage bielleterie_sync_event: id of the client notified last
  backupRequested, \* createAutoBackup has been called
  putLog,       \* history: the records handed to saveToFallback by PutFallback
  batch,        \* batchSaveClients in progress: its caller, its clients, those left
  crypt,        \* one sensitive field: the secret, the value, as stored, as read back
  payments,     \* the payments object store: the records by id
  call,         \* the promise returned by the last save of each caller
  request,      \* the argument of the last saveClient call
  job,          \* saveClientWithRecovery after a failed write: client, attempt, lastError
  metrics,      \* MetricsTracker: the counters sync.failures and backup.restored
  secret,       \* the encryption key in localStorage and in each context
  incoming,     \* new_client events read as absent, their save not yet run
  backups,      \* the backups store: snapshots by id
  db,           \* the database: its schema and the outcome of init()
  link,         \* the connection, a sweep waiting for it, the puts in flight
  deleted       \* ids removed by deleteClient (history)

core == <<clients, syncQueue, items, isSyncing, pc, cur, now, updPending,
          forceBatch, clearPc>>
effects == <<fallback, syncEvent, backupRequested>>
side == <<putLog, batch, crypt, payments, request, job, metrics, secret, incoming, backups, db, link, deleted>>
aux == <<putLog, batch, crypt, payments, request, job, metrics, call, secret, incoming, backups, db, link, deleted>>

vars == <<clients, syncQueue, items, isSyncing, pc, cur, now, updPending,
          forceBatch, clearPc, last, fallback, syncEvent, backupRequested,
          putLog, batch, crypt, payments, call, request, job, metrics, secret, incoming, backups, db, link, deleted>>

\* ------------------------------------------------------- the record store
Ids(store) == {c.id : c \in store}
Has(store, id) == id \in Ids(store)
Get(store, id) == CHOOSE c \in store : c.id = id

\* variant: the put is dropped
putNothing(store, rec) == store
\* IDBObjectStore.put on a store with keyPath "id": replaces the record of that id
put(store, rec) == {c \in store : c.id # rec.id} \cup {rec}

\* IDBObjectStore.delete
delete(store, id) == {c \in store : c.id # id}

generateClientId(type, t, rnd) ==
  <<IF type = "couple" THEN "CPL" ELSE "UNI", t, rnd>>

\* variant: a record that is born synced
completeSynced(id, nom1, t) ==
  [id |-> id, nom1 |-> nom1, paiement |-> "En attente", synced |-> TRUE,
   syncedAt |-> t, lastUpdated |-> t, layers |-> 0, encrypted |-> FALSE]

\* the completeClient object of saveClientDirect.  layers is the number of
\* times the sensitive fields were transformed, encrypted is the tag (absent
\* from completeClient, hence falsy)
completeClient(id, nom1, t) ==
  [id |-> id, nom1 |-> nom1, paiement |-> "En attente", synced |-> FALSE,
   syncedAt |-> Null, lastUpdated |-> t, layers |-> 0, encrypted |-> FALSE]

\* encryptSensitiveData 681-695 applied to a record: the fields are
\* transformed whatever the tag says, the tag is set
encryptRecord(c) == [c EXCEPT !.layers = @ + 1, !.encrypted = TRUE]
\* decryptSensitiveData 697-711 applied to a record: without the tag the
\* record is returned as it is, otherwise one layer is removed and the tag
\* is cleared
decryptRecord(c) ==
  IF ~c.encrypted THEN c ELSE [c EXCEPT !.layers = @ - 1, !.encrypted = FALSE]

\* syncWithAdmin 320-322: what is handed to the delivery
syncWithAdmin(recs) == {encryptRecord(c) : c \in recs}

\* variant: the flag is set and syncedAt is left as it was
syncedWithoutDate(c, t) == [c EXCEPT !.synced = TRUE, !.lastUpdated = t]
\* markClientAsSynced 282-284 and markAsSynced 370-372
syncedRecord(c, t) ==
  [c EXCEPT !.synced = TRUE, !.syncedAt = t, !.lastUpdated = t]

RECURSIVE putAll(_, _)
putAll(store, recs) ==
  IF recs = {} THEN store
  ELSE LET r == CHOOSE x \in recs : TRUE
       IN putAll(put(store, r), recs \ {r})

\* markAsSynced: store.put of every client object handed in
markAsSynced(store, recs, t) == putAll(store, {syncedRecord(c, t) : c \in recs})

\* markClientAsSynced: get, then put if the record exists
markClientAsSynced(store, id, t) ==
  IF Has(store, id) THEN put(store, syncedRecord(Get(store, id), t)) ELSE store

\* ------------------------------------------------------ the fallback cache
\* what the model keeps of a record held in localStorage
fallbackEntry(c) == [id |-> c.id, nom1 |-> c.nom1]

\* Array.prototype.filter
RECURSIVE filterOut(_, _)
filterOut(cache, id) ==
  IF cache = <<>> THEN <<>>
  ELSE IF Head(cache).id = id THEN filterOut(Tail(cache), id)
       ELSE <<Head(cache)>> \o filterOut(Tail(cache), id)

\* variant: slice(0, n)
sliceFirst(cache, n) ==
  IF Len(cache) > n THEN SubSeq(cache, 1, n) ELSE cache

\* Array.prototype.slice(-n)
sliceLast(cache, n) ==
  IF Len(cache) > n THEN SubSeq(cache, Len(cache) - n + 1, Len(cache)) ELSE cache

\* variant: the cache is left as it was
notWritten(cache, e) == cache
\* saveToFallback 1265-1285: filter by id, push, keep the last 500
saveToFallback(cache, e) == sliceLast(Append(filterOut(cache, e.id), e), FallbackCap)

NoEvent == <<"none">>               \* bielleterie_sync_event absent

\* ---------------------------------------------------------- obfuscation
\* strings are sequences of characters
Alphabet == {"k", "e", "y"}
Strings == UNION {[1..n -> Alphabet] : n \in 0..MaxLen}
Keys == {<<"k">>, <<"k", "e">>, <<"k", "e", "y">>}   \* values of this.encryptionKey
charCode == [c \in Alphabet |-> IF c = "k" THEN 107 ELSE IF c = "e" THEN 101 ELSE 121]

\* btoa(unescape(encodeURIComponent(text))): the text as a sequence of codes
encode(text) == [i \in 1..Len(text) |-> charCode[text[i]]]
\* decodeURIComponent(escape(atob(codes)))
decode(codes) == [i \in 1..Len(codes) |-> CHOOSE c \in Alphabet : charCode[c] = codes[i]]

\* the first index at which pat occurs in text, 0 if it does not occur
indexOf(text, pat) ==
  LET occ == {i \in 1..(Len(text) - Len(pat) + 1) :
                SubSeq(text, i, i + Len(pat) - 1) = pat}
  IN IF occ = {} THEN 0 ELSE CHOOSE i \in occ : \A j \in occ : i <= j

\* String.prototype.replace(pat, ""): removes the first occurrence of pat
replaceFirst(text, pat) ==
  LET i == indexOf(text, pat)
  IN IF i = 0 THEN text
     ELSE SubSeq(text, 1, i - 1) \o SubSeq(text, i + Len(pat), Len(text))

\* simpleEncrypt 713-716
simpleEncrypt(text, key) == encode(text \o key)
\* simpleDecrypt 718-726
simpleDecrypt(codes, key) == replaceFirst(decode(codes), key)

\* encryptSensitiveData 681-695, for one field: an empty field is left alone
encryptSensitiveData(field, key) ==
  IF field # <<>> THEN simpleEncrypt(field, key) ELSE field
\* decryptSensitiveData 697-711, for one field of a record tagged encrypted
decryptSensitiveData(field, key) ==
  IF field # <<>> THEN simpleDecrypt(field, key) ELSE field

NoCrypt == [step |-> "none", secret |-> <<>>, value |-> <<>>, stored |-> <<>>,
            revealed |-> <<>>]

\* ---------------------------------------------------- the unsynced query
\* Indexes of the clients store after onupgradeneeded.  createAdvancedIndexes
\* calls db.transaction() while the upgrade transaction is live, which throws
\* InvalidStateError; the catch at line 145 swallows it, so it adds nothing.
createAdvancedIndexes(names) == names
clientIndexNames ==
  createAdvancedIndexes({"email", "phone", "type", "timestamp", "paiement", "synced"})

\* this.version, line 5
version == 6

\* the object stores of onupgradeneeded 69-101
Tables == {"clients", "payments", "backups"}

\* the indexes of the clients store created at 76-81
baseIndexNames == {"email", "phone", "type", "timestamp", "paiement", "synced"}

\* onupgradeneeded 65-107 on a database with these stores and these indexes
\* of the clients store: a store that is missing is created, the clients
\* store with its six indexes, then createAdvancedIndexes
onupgradeneeded(d) ==
  [d EXCEPT !.version = version,
            !.stores = Tables,
            !.indexes = createAdvancedIndexes(IF "clients" \in d.stores
                                                THEN d.indexes
                                                ELSE baseIndexNames)]

\* the database of this version, opened: init() has resolved
OpenDb == [state |-> "open", version |-> version, stores |-> Tables,
           indexes |-> clientIndexNames, others |-> FALSE, blocked |-> FALSE,
           upgraded |-> FALSE]

\* IndexedDB keys are numbers, dates, strings, binaries and arrays of keys
IsValidKey(k) == k \notin BOOLEAN

\* getUnsyncedClients: store.index("sync_status") throws NotFoundError when the
\* index is missing, IDBKeyRange.only([false]) throws DataError on an invalid
\* key; both inside the promise executor, so the promise is rejected.
getUnsyncedClients(store) ==
  IF "sync_status" \in clientIndexNames /\ IsValidKey(FALSE)
  THEN [rejected |-> FALSE, clients |-> {c \in store : <<c.synced>> = <<FALSE>>}]
  ELSE [rejected |-> TRUE, clients |-> {}]

\* ------------------------------------------------------- the sync queue
\* enqueueForSync 208-213
\* (attempts is history: the number of syncWithAdmin calls made for the item)
\* (layers and encrypted are those of the client object the item holds)
syncItem(c) ==
  [client |-> c.id, retries |-> 0, status |-> "pending", attempts |-> 0,
   layers |-> c.layers, encrypted |-> c.encrypted]

\* a syncItem that neither the queue nor a running drain refers to any more
Collected ==
  [client |-> NoId, retries |-> 0, status |-> "collected", attempts |-> 0,
   layers |-> 0, encrypted |-> FALSE]
Refs(f) == {f[x] : x \in DOMAIN f}
Collect(its, q, c) ==
  [i \in 1..Len(its) |-> IF i \in Refs(q) \cup Refs(c) THEN its[i] ELSE Collected]

\* variant: the entry pushed last
lastOf(q) == q[Len(q)]
\* processSyncQueue 233: const syncItem = this.syncQueue[0]
headOf(q) == q[1]

\* Array.prototype.shift
shift(q) == IF Len(q) = 0 THEN q ELSE Tail(q)

\* processSyncQueue 249
ceilingReached(retries) == retries >= maxRetries

\* variant: updatedTime >= existingTime
isNewerOrEqual(t2, t1) == t2 >= t1
\* handleClientUpdate 427: updatedTime > existingTime
isNewer(t2, t1) == t2 > t1

QueuedClients == {items[syncQueue[i]].client : i \in 1..Len(syncQueue)}

\* last: the operation of the last step; for a save, whether the id was
\* generated and whether a record of that id was stored before; for an inbound
\* update, whether a local record existed and how the two dates compared; for
\* a step of the drain that calls syncQueue.shift(), the status of the entry
\* it removed, and the entry, retries and attempts of the drain's own syncItem
NoOp(name) ==
  [op |-> name, generated |-> FALSE, existed |-> FALSE, cmp |-> "none",
   removed |-> "none", ref |-> 0, retries |-> 0, attempts |-> 0, arg |-> NoId]
Compare(t2, t1) == IF t2 > t1 THEN "gt" ELSE IF t2 = t1 THEN "eq" ELSE "lt"

\* no batchSaveClients call is in progress
NoBatch == [kind |-> "none", doc |-> <<>>, todo |-> <<>>, done |-> FALSE,
            pay |-> {}, before |-> {}]

\* payment.id and payment.status of the argument of savePayment
PaymentIds == {"p1", "p2"}
PaymentStatuses == {"paid", "refunded"}

\* getAllClients 740-765: the records as an array, in one fixed order, each
\* through decryptSensitiveData
RECURSIVE getAllClients(_)
getAllClients(store) ==
  IF store = {} THEN <<>>
  ELSE LET c == CHOOSE x \in store : TRUE
       IN <<decryptRecord(c)>> \o getAllClients(store \ {c})

\* exportToJSON 1164-1180
exportToJSON(store, pays) == [clients |-> getAllClients(store), payments |-> pays]

\* a document exported on another device
ForeignDocuments ==
  {[clients |-> <<[id |-> id, nom1 |-> n, synced |-> TRUE, syncedAt |-> 0,
                   lastUpdated |-> 0, layers |-> 0, encrypted |-> FALSE]>>,
    payments |-> {[id |-> "p1", status |-> "paid"]}] : id \in RemoteIds, n \in RemoteNames}

\* ------------------------------------------------------------ validation
\* text fields of the argument of saveClient are sequences of characters; a
\* field that is absent is the empty sequence (both are falsy)
Digits(n) == [i \in 1..n |-> "0"]
NoText == <<>>
InputNames == {NoText, <<" ">>, <<"A">>}
InputTypes == {"", "unite", "couple", "vip"}
GoodEmails == {<<"a", "@", "b", ".", "c">>}
BadEmails == {<<"a", "b">>, <<"a", "@", "b">>, <<"a", " ", "@", "b", ".", "c">>}
GoodPhones == {Digits(10), <<"+">> \o Digits(10), <<"(", "0", ")", " ", "-">> \o Digits(5)}
BadPhones == {Digits(9), <<"+">> \o Digits(9), <<"x">> \o Digits(10)}

\* the arguments of saveClient: a valid record with one field replaced, and
\* records with every field replaced
ValidClient == [id |-> NoId, nom1 |-> <<"A">>, type |-> "unite",
                email |-> NoText, phone |-> NoText]
InputClients ==
  {[ValidClient EXCEPT !.nom1 = n] : n \in InputNames}
  \cup {[ValidClient EXCEPT !.type = t] : t \in InputTypes}
  \cup {[ValidClient EXCEPT !.email = e] : e \in GoodEmails \cup BadEmails}
  \cup {[ValidClient EXCEPT !.phone = ph] : ph \in GoodPhones \cup BadPhones}
  \cup [id : {NoId}, nom1 : {<<" ">>}, type : {"vip", "couple"}, email : BadEmails,
        phone : {<<"x">> \o Digits(10)}]
  \cup [id : {NoId}, nom1 : {<<"A">>}, type : {"couple"}, email : GoodEmails,
        phone : GoodPhones]

\* String.prototype.trim
RECURSIVE trimStart(_)
trimStart(t) == IF t # <<>> /\ Head(t) = " " THEN trimStart(Tail(t)) ELSE t
RECURSIVE trimEnd(_)
trimEnd(t) ==
  IF t # <<>> /\ t[Len(t)] = " " THEN trimEnd(SubSeq(t, 1, Len(t) - 1)) ELSE t
trim(t) == trimEnd(trimStart(t))

\* [^\s@]+
noSpaceNoAt(t) == t # <<>> /\ \A i \in 1..Len(t) : t[i] \notin {" ", "@"}

\* isValidEmail 662-665: /^[^\s@]+@[^\s@]+\.[^\s@]+$/
isValidEmail(email) ==
  \E i, j \in 1..Len(email) :
    /\ i < j
    /\ email[i] = "@"
    /\ email[j] = "."
    /\ noSpaceNoAt(SubSeq(email, 1, i - 1))
    /\ noSpaceNoAt(SubSeq(email, i + 1, j - 1))
    /\ noSpaceNoAt(SubSeq(email, j + 1, Len(email)))

\* isValidPhone 667-670: /^[+]?[\d\s\-()]{10,}$/
isValidPhone(phone) ==
  LET body == IF phone # <<>> /\ Head(phone) = "+" THEN Tail(phone) ELSE phone
  IN /\ Len(body) >= 10
     /\ \A i \in 1..Len(body) : body[i] \in {"0", " ", "-", "(", ")"}

\* variant: no check is made
noErrors(client) == {}
\* validateClient 629-660: the errors collected
validateClient(client) ==
  (IF client.nom1 = NoText \/ trim(client.nom1) = NoText
   THEN {"Champ requis manquant: nom1"} ELSE {})
  \cup (IF client.type = "" THEN {"Champ requis manquant: type"} ELSE {})
  \cup (IF client.email # NoText /\ ~isValidEmail(client.email)
        THEN {"Format email invalide"} ELSE {})
  \cup (IF client.phone # NoText /\ ~isValidPhone(client.phone)
        THEN {"Format téléphone invalide"} ELSE {})
  \cup (IF client.type \notin {"unite", "couple"} THEN {"Type invalide"} ELSE {})

\* ------------------------------------------------- storage write failures
\* error.name of a failed attempt
ErrorNames == {"QuotaExceededError", "VersionError", "ConstraintError", "UnknownError"}
\* how handleVersionConflict ends: done, deleteDatabase failed, open failed
ResetOutcomes == {"ok", "deleteFailed", "openFailed"}
saveMaxRetries == 2
NoJob == [state |-> "none", id |-> NoId, nom1 |-> NoText, type |-> "",
          attempt |-> 0, lastError |-> "none"]

\* MetricsTracker constructor 1474-1481
NoMetrics == [syncFailures |-> 0, backupRestored |-> 0]

\* the browsing contexts (tabs, pages) that share one localStorage
Contexts == {"c1", "c2", "c3"}

\* Math.random().toString(36).substr(2, 16), line 676
Randoms == {"r1", "r2"}

\* localStorage.getItem of a key that was never set returns null
NoKey == <<>>

\* "key_" + Date.now() + "_" + Math.random()..., line 675-676
generateKey(t, r) == <<"key", t, r>>

\* no context is constructed and localStorage holds no encryption key
NoSecret == [stored |-> NoKey,
             state |-> [c \in Contexts |-> "none"],
             key |-> [c \in Contexts |-> NoKey]]

\* no save was called
NoCall == [outcome |-> "none", value |-> NoId, error |-> "none"]
NoRequest == [p |-> "none", client |-> [id |-> NoId, nom1 |-> NoText, type |-> "",
                                        email |-> NoText, phone |-> NoText]]

\* variant: the error of a delivery rejects the promise the drain is awaited by
rethrown(c) == [c EXCEPT !.outcome = IF @ = "pending" THEN "rejected" ELSE @]
\* processSyncQueue 245-264: the error of a delivery is caught and not thrown
\* again; the promise the drain is awaited by keeps its state
afterDeliveryError(c) == c

\* enqueueForSync 219-221 and saveClientWithRecovery 526-528: when
\* processSyncQueue has returned, the save that awaited it returns result
returned(c, state) ==
  IF state = "idle" /\ c.outcome = "pending" THEN [c EXCEPT !.outcome = "resolved"]
  ELSE c

\* the id of the snapshot of createAutoBackup, line 933
AutoId == <<"auto_backup_latest">>

\* the id of a snapshot of createBackup, "backup_" + Date.now(), line 1443
datedId(t) == <<"backup", t>>

\* createBackup 1438-1448 and createAutoBackup 929-941: the snapshot record
snapshot(id, t, store, pays) ==
  [id |-> id, timestamp |-> t, clients |-> getAllClients(store), payments |-> pays]

\* every snapshot, whatever its id
anyBackup(bs, id) == bs

\* store.get(backupId) of restoreBackup 1236-1243: the snapshot or undefined
findBackup(bs, id) == {b \in bs : b.id = id}

\* the snapshots cleanupOldData keeps, line 957-958
keep == 5

\* getAll returns the snapshots in the order of their keys
keyLess(a, b) ==
  IF a = AutoId THEN b # AutoId
  ELSE b # AutoId /\ a[2] < b[2]

\* backups.sort by timestamp, newest first (958); the sort is stable
sortsBefore(x, y) ==
  \/ x.timestamp > y.timestamp
  \/ x.timestamp = y.timestamp /\ keyLess(x.id, y.id)

\* cleanupOldData 956-964: with more than 5 snapshots, those after the
\* fifth of the sorted array are deleted
cleanupOldData(bs) ==
  IF Cardinality(bs) > keep
    THEN {b \in bs : Cardinality({x \in bs : sortsBefore(x, b)}) < keep}
    ELSE bs

\* the connection is open, no sweep waits for it, no put is in flight
NoLink == [open |-> TRUE, sweep |-> "idle", put |-> {}]

\* ------------------------------------------------------------ the state
Init ==
  /\ clients = {}
  /\ syncQueue = <<>>
  /\ items = <<>>
  /\ isSyncing = FALSE
  /\ pc = [p \in Procs |-> "idle"]
  /\ cur = [p \in Procs |-> 0]
  /\ now = 1
  /\ updPending = {}
  /\ forceBatch = {}
  /\ clearPc = "idle"
  /\ last = NoOp("init")
  /\ fallback = <<>>
  /\ syncEvent = NoEvent
  /\ backupRequested = FALSE
  /\ putLog = <<>>
  /\ batch = NoBatch
  /\ crypt = NoCrypt
  /\ payments = {}
  /\ call = [p \in Procs |-> NoCall]
  /\ request = NoRequest
  /\ job = [p \in Procs |-> NoJob]
  /\ metrics = NoMetrics
  /\ secret = NoSecret
  /\ incoming = {}
  /\ backups = {}
  /\ db = OpenDb
  /\ link = NoLink
  /\ deleted = {}

\* processSyncQueue 232-235 and 267: the loop test, then either the next
\* attempt (syncWithAdmin is called and awaited) or the exit of the loop.
\* flag is the value isSyncing has while the loop goes on.
DrainLoop(p, q, its, flag) ==
  IF Len(q) > 0
  THEN LET c == [cur EXCEPT ![p] = headOf(q)]
       IN /\ syncQueue' = q
          /\ items' = Collect([its EXCEPT ![headOf(q)].status = "processing",
                                          ![headOf(q)].attempts = @ + 1], q, c)
          /\ pc' = [pc EXCEPT ![p] = "deliver"]
          /\ cur' = c
          /\ isSyncing' = flag
  ELSE LET c == [cur EXCEPT ![p] = 0]
       IN /\ syncQueue' = q
          /\ items' = Collect(its, q, c)
          /\ pc' = [pc EXCEPT ![p] = "idle"]
          /\ cur' = c
          /\ isSyncing' = FALSE

\* the status of the entry syncQueue.shift() removes
Removed(q, its) == IF Len(q) > 0 THEN its[q[1]].status ELSE "none"

\* an attempt of saveClientWithRecovery that succeeds: saveClientDirect
\* (the put, createAutoBackup, saveToFallback, triggerCrossPageSync), then
\* enqueueForSync, which starts processSyncQueue when no drain is flagged.
\* store says where the put went: the open database, or the one resetDatabase
\* closed while the put was in flight and then deleted.
saveCompletes(p, cid, nom1, type, rnd, store) ==
  /\ Len(items) < MaxItems
  /\ LET id == IF cid = NoId THEN generateClientId(type, now, rnd) ELSE cid
         rec == completeClient(id, nom1, now)
         its == Append(items, syncItem(rec))
         q == Append(syncQueue, Len(its))
     IN /\ clients' = IF store = "open" THEN put(clients, encryptRecord(rec))
                                        ELSE clients
        /\ fallback' = saveToFallback(fallback, fallbackEntry(rec))
        /\ syncEvent' = rec.id
        /\ backupRequested' = TRUE
        /\ call' = [call EXCEPT ![p] = [outcome |-> IF ~isSyncing THEN "pending"
                                                    ELSE "resolved",
                                        value |-> rec, error |-> "none"]]
        /\ last' = [NoOp("save") EXCEPT !.generated = (cid = NoId),
                                        !.existed = Has(clients, id)]
        /\ IF ~isSyncing
           THEN DrainLoop(p, q, its, TRUE)
           ELSE /\ syncQueue' = q
                /\ items' = its
                /\ pc' = [pc EXCEPT ![p] = "idle"]
                /\ UNCHANGED <<cur, isSyncing>>
  /\ UNCHANGED <<now, updPending, forceBatch, clearPc>>

\* the attempt on the open database
attemptSucceeds(p, cid, nom1, type, rnd) == saveCompletes(p, cid, nom1, type, rnd, "open")

\* saveClientWithRecovery 516-528 when the first attempt succeeds
saveClientWithRecovery(p, cid, nom1, type, rnd) ==
  /\ pc[p] = "idle"
  /\ attemptSucceeds(p, cid, nom1, type, rnd)

\* saveClient of a record that passes validateClient
SaveClient(p, cid, nom1, type, rnd) ==
  /\ saveClientWithRecovery(p, cid, nom1, type, rnd)
  /\ UNCHANGED side

\* saveClient 508-514: validateClient throws before anything is written,
\* otherwise saveClientWithRecovery
saveClient(p, client, rnd) ==
  /\ pc[p] = "idle"
  /\ request' = [p |-> p, client |-> client]
  /\ IF validateClient(client) # {}
     THEN /\ call' = [call EXCEPT ![p] = [outcome |-> "rejected", value |-> NoId,
                                          error |-> "Validation failed"]]
          /\ last' = NoOp("invalid")
          /\ UNCHANGED <<core, effects>>
     ELSE saveClientWithRecovery(p, client.id, client.nom1, client.type, rnd)
  /\ UNCHANGED <<putLog, batch, crypt, payments, job, metrics, secret, incoming, backups, db, link, deleted>>

\* saveClientWithRecovery 529-551 after saveClientDirect rejected with error
\* name: the last attempt ends with saveToFallback(client) and throw
\* lastError; an earlier one goes on to the recovery of its kind
attemptFails(p, j, name) ==
  LET failed == [j EXCEPT !.lastError = name]
  IN /\ IF j.attempt = saveMaxRetries
        THEN /\ fallback' = saveToFallback(fallback, [id |-> j.id, nom1 |-> j.nom1])
             /\ call' = [call EXCEPT ![p] = [outcome |-> "rejected", value |-> NoId,
                                             error |-> name]]
             /\ job' = [job EXCEPT ![p] = [failed EXCEPT !.state = "thrown"]]
             /\ pc' = [pc EXCEPT ![p] = "idle"]
        ELSE /\ call' = [call EXCEPT ![p] = [outcome |-> "pending", value |-> NoId,
                                             error |-> "none"]]
             /\ job' = [job EXCEPT ![p] = [failed EXCEPT !.state = "recover"]]
             /\ pc' = [pc EXCEPT ![p] = "recover"]
             /\ UNCHANGED fallback
     /\ last' = NoOp("writeFailed")
     /\ UNCHANGED <<clients, syncQueue, items, isSyncing, cur, now, updPending,
                    forceBatch, clearPc, syncEvent, backupRequested>>
     /\ UNCHANGED <<putLog, batch, crypt, payments, request, metrics, secret, incoming, backups, db, link, deleted>>

\* saveClientWithRecovery called, the first saveClientDirect rejects: with
\* VersionError ensureConnection rejected and client.id was not assigned
\* (555), otherwise the id was assigned before the put (562-564)
FirstAttemptFails(p, cid, nom1, type, rnd, name) ==
  /\ pc[p] = "idle"
  /\ LET id == IF cid = NoId /\ name # "VersionError"
               THEN generateClientId(type, now, rnd) ELSE cid
     IN attemptFails(p, [NoJob EXCEPT !.id = id, !.nom1 = nom1, !.type = type], name)

\* a later saveClientDirect rejects
RetryFails(p, rnd, name) ==
  /\ pc[p] = "retry"
  /\ LET j == job[p]
         id == IF j.id = NoId /\ name # "VersionError"
               THEN generateClientId(j.type, now, rnd) ELSE j.id
     IN attemptFails(p, [j EXCEPT !.id = id], name)

\* a later saveClientDirect succeeds
RetrySucceeds(p, rnd) ==
  /\ pc[p] = "retry"
  /\ attemptSucceeds(p, job[p].id, job[p].nom1, job[p].type, rnd)
  /\ job' = [job EXCEPT ![p] = NoJob]
  /\ UNCHANGED <<putLog, batch, crypt, payments, request, metrics, secret, incoming, backups, db, link, deleted>>

\* saveClientDirect 555 when ensureConnection rejects: init hands back the
\* promise of the open that failed (30-32, 37-40), so the attempt ends before
\* the id is assigned (562-564) and the client keeps the id it came with
ConnectFails(p, cid, nom1, type, name) ==
  /\ pc[p] = "idle"
  /\ attemptFails(p, [NoJob EXCEPT !.id = cid, !.nom1 = nom1, !.type = type], name)

\* a later attempt meets the same rejected promise
RetryConnectFails(p, name) ==
  /\ pc[p] = "retry"
  /\ attemptFails(p, job[p], name)

\* saveClientWithRecovery 535-542, the recovery of the kind of the error:
\* cleanupOldData ends with cleanupLocalStorage, which removes the fallback
\* cache and the change event; handleVersionConflict is resetDatabase then
\* init, and what it throws leaves saveClientWithRecovery; a ConstraintError
\* gives the client a new id
Recover(p, rnd, how) ==
  /\ pc[p] = "recover"
  /\ LET j == job[p]
     IN \/ /\ j.lastError = "QuotaExceededError"
           /\ fallback' = <<>>
           /\ syncEvent' = NoEvent
           /\ job' = [job EXCEPT ![p].state = "backoff"]
           /\ pc' = [pc EXCEPT ![p] = "backoff"]
           /\ backups' = cleanupOldData(backups)
           /\ UNCHANGED <<clients, syncQueue, items, isSyncing, payments, call>>
        \/ /\ j.lastError = "VersionError"
           /\ syncQueue' = <<>>
           /\ items' = Collect(items, <<>>, cur)
           /\ isSyncing' = FALSE
           /\ IF how = "deleteFailed"
              THEN UNCHANGED <<clients, payments, backups>>
              ELSE clients' = {} /\ payments' = {} /\ backups' = {}
           /\ IF how = "ok"
              THEN /\ job' = [job EXCEPT ![p].state = "backoff"]
                   /\ pc' = [pc EXCEPT ![p] = "backoff"]
                   /\ UNCHANGED call
              ELSE /\ job' = [job EXCEPT ![p].state = "escaped"]
                   /\ pc' = [pc EXCEPT ![p] = "idle"]
                   /\ call' = [call EXCEPT ![p] = [outcome |-> "rejected",
                                   value |-> NoId, error |-> how]]
           /\ UNCHANGED <<fallback, syncEvent>>
        \/ /\ j.lastError = "ConstraintError"
           /\ job' = [job EXCEPT ![p].state = "backoff",
                                 ![p].id = generateClientId(j.type, now, rnd)]
           /\ pc' = [pc EXCEPT ![p] = "backoff"]
           /\ UNCHANGED <<clients, syncQueue, items, isSyncing, payments, call,
                          fallback, syncEvent, backups>>
        \/ /\ j.lastError = "UnknownError"
           /\ job' = [job EXCEPT ![p].state = "backoff"]
           /\ pc' = [pc EXCEPT ![p] = "backoff"]
           /\ UNCHANGED <<clients, syncQueue, items, isSyncing, payments, call,
                          fallback, syncEvent, backups>>
  /\ last' = NoOp("recover")
  /\ UNCHANGED <<cur, now, updPending, forceBatch, clearPc, backupRequested,
                 putLog, batch, crypt, request, metrics, secret, incoming, db, link, deleted>>

\* saveClientWithRecovery 544: the delay elapsed, the next attempt starts
BackoffDone(p) ==
  /\ pc[p] = "backoff"
  /\ job' = [job EXCEPT ![p].state = "retry", ![p].attempt = @ + 1]
  /\ pc' = [pc EXCEPT ![p] = "retry"]
  /\ last' = NoOp("backoff")
  /\ UNCHANGED <<clients, syncQueue, items, isSyncing, cur, now, updPending,
                 forceBatch, clearPc>>
  /\ UNCHANGED effects
  /\ UNCHANGED <<putLog, batch, crypt, payments, request, call, metrics, secret, incoming, backups, db, link, deleted>>

\* processSyncQueue 237-238: syncWithAdmin resolved
DeliverOk(p) ==
  /\ pc[p] = "deliver"
  /\ items' = [items EXCEPT ![cur[p]].status = "synced"]
  /\ pc' = [pc EXCEPT ![p] = "mark"]
  /\ last' = NoOp("other")
  /\ UNCHANGED <<clients, syncQueue, isSyncing, cur, now, updPending, forceBatch, clearPc>>
  /\ UNCHANGED effects
  /\ UNCHANGED aux

\* processSyncQueue 241-243: markClientAsSynced completed, shift, loop
MarkDone(p) ==
  /\ pc[p] = "mark"
  /\ clients' = markClientAsSynced(clients, items[cur[p]].client, now)
  /\ DrainLoop(p, shift(syncQueue), items, isSyncing)
  /\ last' = [NoOp("synced") EXCEPT !.removed = Removed(syncQueue, items),
                 !.ref = cur[p], !.retries = items[cur[p]].retries,
                 !.attempts = items[cur[p]].attempts]
  /\ UNCHANGED <<now, updPending, forceBatch, clearPc>>
  /\ UNCHANGED effects
  /\ call' = [call EXCEPT ![p] = returned(@, pc'[p])]
  /\ UNCHANGED side

\* processSyncQueue 245-263: syncWithAdmin rejected
DeliverFail(p) ==
  /\ pc[p] = "deliver"
  /\ LET r == items[cur[p]].retries + 1
         its == [items EXCEPT ![cur[p]].retries = r]
         failed == [its EXCEPT ![cur[p]].status = "failed"]
     IN IF ceilingReached(r)
        THEN /\ DrainLoop(p, shift(syncQueue), failed, isSyncing)
             /\ last' = [NoOp("failed") EXCEPT !.removed = Removed(syncQueue, failed),
                           !.ref = cur[p], !.retries = r,
                           !.attempts = items[cur[p]].attempts]
        ELSE /\ items' = its
             /\ pc' = [pc EXCEPT ![p] = "delay"]
             /\ last' = NoOp("other")
             /\ UNCHANGED <<syncQueue, cur, isSyncing>>
  /\ UNCHANGED <<clients, now, updPending, forceBatch, clearPc>>
  /\ UNCHANGED effects
  /\ call' = [call EXCEPT ![p] = returned(afterDeliveryError(@), pc'[p])]
  /\ UNCHANGED side

\* processSyncQueue 241 and 245-263: markClientAsSynced rejected; the same
\* catch runs, the entry keeps the status the success branch gave it
MarkFail(p) ==
  /\ pc[p] = "mark"
  /\ LET r == items[cur[p]].retries + 1
         its == [items EXCEPT ![cur[p]].retries = r]
         failed == [its EXCEPT ![cur[p]].status = "failed"]
     IN IF ceilingReached(r)
        THEN /\ DrainLoop(p, shift(syncQueue), failed, isSyncing)
             /\ last' = [NoOp("failed") EXCEPT !.removed = Removed(syncQueue, failed),
                           !.ref = cur[p], !.retries = r,
                           !.attempts = items[cur[p]].attempts]
        ELSE /\ items' = its
             /\ pc' = [pc EXCEPT ![p] = "delay"]
             /\ last' = NoOp("markFailed")
             /\ UNCHANGED <<syncQueue, cur, isSyncing>>
  /\ UNCHANGED <<clients, now, updPending, forceBatch, clearPc>>
  /\ UNCHANGED effects
  /\ call' = [call EXCEPT ![p] = returned(afterDeliveryError(@), pc'[p])]
  /\ UNCHANGED side

\* processSyncQueue 262: the delay elapsed, loop
DelayDone(p) ==
  /\ pc[p] = "delay"
  /\ DrainLoop(p, syncQueue, items, isSyncing)
  /\ last' = NoOp("other")
  /\ UNCHANGED <<clients, now, updPending, forceBatch, clearPc>>
  /\ UNCHANGED effects
  /\ call' = [call EXCEPT ![p] = returned(@, pc'[p])]
  /\ UNCHANGED side

\* processSync, run by the timers of startSyncSystem.  With isSyncing set it
\* returns.  Otherwise it sets isSyncing; its call of processSyncQueue returns
\* at line 225 because isSyncing is set; getUnsyncedClients rejects, so control
\* goes to the catch and the finally (isSyncing = false).  With the connection
\* open only promise continuations lie in between (the rejection comes from
\* the promise executor), so no other step of the model can run in between.
\* Lines 184-197 are not reached; the catch records a sync failure (200).
ProcessSync ==
  /\ ~isSyncing
  /\ metrics.syncFailures < MaxCount
  /\ getUnsyncedClients(clients).rejected
  /\ isSyncing' = FALSE
  /\ metrics' = [metrics EXCEPT !.syncFailures = @ + 1]
  /\ last' = NoOp("processSync")
  /\ UNCHANGED <<clients, syncQueue, items, pc, cur, now, updPending, forceBatch, clearPc>>
  /\ UNCHANGED effects
  /\ UNCHANGED <<putLog, batch, crypt, payments, request, job, call, secret, incoming, backups, db, link, deleted>>

\* handleClientUpdate 416-441: getClient completed, the comparison
HandleClientUpdateRead(cid, nom1, t2) ==
  /\ updPending = {}
  /\ LET existed == Has(clients, cid)
         t1 == IF existed THEN Get(clients, cid).lastUpdated ELSE 0
         info == [NoOp("update") EXCEPT !.existed = existed,
                    !.cmp = IF existed THEN Compare(t2, t1) ELSE "none"]
     IN IF existed /\ ~isNewer(t2, t1)
        THEN /\ last' = [info EXCEPT !.op = "updateIgnored"]
             /\ UNCHANGED updPending
        ELSE /\ last' = [info EXCEPT !.op = "updateAccepted"]
             /\ updPending' = {[id |-> cid, nom1 |-> nom1, t2 |-> t2, info |-> info]}
  /\ UNCHANGED <<clients, syncQueue, items, isSyncing, pc, cur, now, forceBatch, clearPc>>
  /\ UNCHANGED effects
  /\ UNCHANGED aux

\* handleClientUpdate 434 / 449: saveClientDirect of the inbound record
HandleClientUpdateWrite ==
  /\ \E u \in updPending :
       /\ clients' = put(clients, encryptRecord(completeClient(u.id, u.nom1, now)))
       /\ fallback' = saveToFallback(fallback, [id |-> u.id, nom1 |-> u.nom1])
       /\ syncEvent' = u.id
       /\ backupRequested' = TRUE
       /\ last' = [u.info EXCEPT !.op = "updateApplied"]
  /\ updPending' = {}
  /\ UNCHANGED <<syncQueue, items, isSyncing, pc, cur, now, forceBatch, clearPc>>
  /\ UNCHANGED aux

\* forceFullSync 469-474: getAllClients, filter, syncWithAdmin called
ForceFullSync ==
  /\ forceBatch = {}
  /\ {c \in clients : ~c.synced} # {}
  /\ forceBatch' = {decryptRecord(c) : c \in {x \in clients : ~x.synced}}
  /\ last' = NoOp("other")
  /\ UNCHANGED <<clients, syncQueue, items, isSyncing, pc, cur, now, updPending, clearPc>>
  /\ UNCHANGED effects
  /\ UNCHANGED aux

\* forceFullSync 475: syncWithAdmin resolved, markAsSynced
ForceDeliverOk ==
  /\ forceBatch # {}
  /\ clients' = markAsSynced(clients, forceBatch, now)
  /\ forceBatch' = {}
  /\ last' = NoOp("other")
  /\ UNCHANGED <<syncQueue, items, isSyncing, pc, cur, now, updPending, clearPc>>
  /\ UNCHANGED effects
  /\ UNCHANGED aux

\* forceFullSync 474: syncWithAdmin rejected, the listener's catch (406)
ForceDeliverFail ==
  /\ forceBatch # {}
  /\ forceBatch' = {}
  /\ last' = NoOp("other")
  /\ UNCHANGED <<clients, syncQueue, items, isSyncing, pc, cur, now, updPending, clearPc>>
  /\ UNCHANGED effects
  /\ UNCHANGED aux

\* deleteClient, also reached from handleClientDeletion
DeleteClient(id) ==
  /\ clients' = delete(clients, id)
  /\ deleted' = deleted \cup {id}
  /\ last' = NoOp("other")
  /\ UNCHANGED <<syncQueue, items, isSyncing, pc, cur, now, updPending, forceBatch, clearPc>>
  /\ UNCHANGED effects
  /\ UNCHANGED <<putLog, batch, crypt, payments, request, job, metrics, call, secret,
                 incoming, backups, db, link>>

\* clearAllData 1135: clearStore("clients") completed
ClearStart ==
  /\ clearPc = "idle"
  /\ clients' = {}
  /\ clearPc' = "clearing"
  /\ last' = NoOp("other")
  /\ UNCHANGED <<syncQueue, items, isSyncing, pc, cur, now, updPending, forceBatch>>
  /\ UNCHANGED effects
  /\ UNCHANGED aux

\* clearAllData 1136-1146: the other stores cleared, this.syncQueue = []
ClearFinish ==
  /\ clearPc = "clearing"
  /\ syncQueue' = <<>>
  /\ items' = Collect(items, <<>>, cur)
  /\ clearPc' = "idle"
  /\ fallback' = <<>>
  /\ last' = NoOp("other")
  /\ UNCHANGED <<clients, isSyncing, pc, cur, now, updPending, forceBatch,
                 syncEvent, backupRequested>>
  /\ payments' = {}
  /\ backups' = {}
  /\ UNCHANGED <<putLog, batch, crypt, call, request, job, metrics, secret, incoming, db, link, deleted>>

\* resetDatabase 1390-1397; the database is reopened by the next ensureConnection
ResetDatabase ==
  /\ clients' = {}
  /\ syncQueue' = <<>>
  /\ items' = Collect(items, <<>>, cur)
  /\ isSyncing' = FALSE
  /\ last' = NoOp("other")
  /\ UNCHANGED <<pc, cur, now, updPending, forceBatch, clearPc>>
  /\ UNCHANGED effects
  /\ payments' = {}
  /\ backups' = {}
  /\ UNCHANGED <<putLog, batch, crypt, call, request, job, metrics, secret, incoming, db, link, deleted>>

\* the clock advances
Tick ==
  /\ now < MaxTime
  /\ now' = now + 1
  /\ last' = NoOp("other")
  /\ UNCHANGED <<clients, syncQueue, items, isSyncing, pc, cur, updPending, forceBatch, clearPc>>
  /\ UNCHANGED effects
  /\ UNCHANGED aux

\* saveToFallback called with a record (with or without an id)
PutFallback(id, nom1) ==
  /\ Len(putLog) < MaxPuts
  /\ fallback' = saveToFallback(fallback, [id |-> id, nom1 |-> nom1])
  /\ putLog' = Append(putLog, [id |-> id, nom1 |-> nom1])
  /\ last' = NoOp("putFallback")
  /\ UNCHANGED <<core, syncEvent, backupRequested, batch, crypt, payments, call, request, job, metrics, secret, incoming, backups, db, link, deleted>>

\* restoreFromBackupIfNeeded 1289-1301: getAllClients completed; with no
\* client stored and a non-empty fallback cache, batchSaveClients is called
RestoreFromBackupIfNeeded ==
  /\ batch.kind = "none"
  /\ IF clients = {} /\ Len(fallback) > 0
     THEN /\ batch' = [NoBatch EXCEPT !.kind = "restore", !.doc = fallback,
                                       !.todo = fallback]
          /\ last' = NoOp("restore")
     ELSE /\ last' = NoOp("restoreSkipped")
          /\ UNCHANGED batch
  /\ UNCHANGED <<core, effects, putLog, crypt, payments, call, request, job, metrics, secret, incoming, backups, db, link, deleted>>

\* batchSaveClients 807-810: saveClientWithRecovery of the next client of the
\* batch; the puts complete in the order of the array
BatchSave(p, type, rnd) ==
  /\ batch.kind # "none"
  /\ batch.todo # <<>>
  /\ saveClientWithRecovery(p, Head(batch.todo).id, Head(batch.todo).nom1, type, rnd)
  /\ batch' = [batch EXCEPT !.todo = Tail(batch.todo)]
  /\ UNCHANGED <<putLog, crypt, payments, request, job, metrics, secret, incoming, backups, db, link, deleted>>

\* batchSaveClients 811-848: every saveClientWithRecovery promise is settled;
\* restoreBackup 1250 then counts the restore
BatchDone ==
  /\ batch.kind # "none"
  /\ ~batch.done
  /\ batch.todo = <<>>
  /\ \A p \in Procs : pc[p] = "idle"
  /\ batch' = [batch EXCEPT !.done = TRUE]
  /\ metrics' = IF batch.kind = "restoreBackup"
                THEN [metrics EXCEPT !.backupRestored = @ + 1]
                ELSE metrics
  /\ last' = NoOp("batchDone")
  /\ UNCHANGED <<core, effects, putLog, crypt, payments, call, request, job, secret, incoming, backups, db, link, deleted>>

\* savePayment 1095-1115: store.put of the payment
SavePayment(pid, status) ==
  /\ payments' = put(payments, [id |-> pid, status |-> status])
  /\ last' = NoOp("savePayment")
  /\ UNCHANGED <<core, effects, putLog, batch, crypt, call, request, job, metrics, secret, incoming, backups, db, link, deleted>>

\* importFromJSON 1182-1192: batchSaveClients(data.clients); data.payments
\* is not read
ImportFromJSON(data) ==
  /\ batch.kind = "none"
  /\ batch' = [NoBatch EXCEPT !.kind = "import", !.doc = data.clients,
                              !.todo = data.clients, !.pay = data.payments,
                              !.before = clients]
  /\ last' = NoOp("import")
  /\ UNCHANGED <<core, effects, putLog, crypt, payments, call, request, job, metrics, secret, incoming, backups, db, link, deleted>>

\* a sensitive field on its way into the store (encryptSensitiveData)
Transform ==
  /\ crypt.step = "plain"
  /\ crypt' = [crypt EXCEPT !.step = "stored",
                 !.stored = encryptSensitiveData(crypt.value, crypt.secret)]
  /\ last' = NoOp("transform")
  /\ UNCHANGED <<core, effects, putLog, batch, payments, call, request, job, metrics, secret, incoming, backups, db, link, deleted>>

\* the stored field read back (decryptSensitiveData)
Reveal ==
  /\ crypt.step = "stored"
  /\ crypt' = [crypt EXCEPT !.step = "revealed",
                 !.revealed = decryptSensitiveData(crypt.stored, crypt.secret)]
  /\ last' = NoOp("reveal")
  /\ UNCHANGED <<core, effects, putLog, batch, payments, call, request, job, metrics, secret, incoming, backups, db, link, deleted>>

\* a save by one caller whose attempts fail or succeed
SaveFails ==
  \E cid \in {NoId} \cup RemoteIds, name \in ErrorNames :
    FirstAttemptFails("s1", cid, "A", "unite", "x", name)
Retry ==
  \/ \E name \in ErrorNames : RetryFails("s1", "x", name)
  \/ RetrySucceeds("s1", "x")
Recovery == \E how \in ResetOutcomes : Recover("s1", "y", how)

\* saveClient called by one caller with any argument
SaveAny == \E client \in InputClients : saveClient("s1", client, "x")

Pay == \E pid \in PaymentIds, status \in PaymentStatuses : SavePayment(pid, status)

\* the document imported: the export of this store, or one of another device
Import ==
  \E data \in {exportToJSON(clients, payments)} \cup ForeignDocuments :
    ImportFromJSON(data)

Save ==
  \E p \in Procs, cid \in {NoId} \cup Ids(clients) \cup RemoteIds,
     nom1 \in LocalNames, type \in Types, rnd \in Suffixes :
       SaveClient(p, cid, nom1, type, rnd)

\* saves of one caller, of one type, with one outcome of Math.random()
\* saves of one type
SaveUnite ==
  \E p \in Procs, cid \in {NoId} \cup Ids(clients) \cup RemoteIds,
     nom1 \in LocalNames, rnd \in Suffixes :
       SaveClient(p, cid, nom1, "unite", rnd)

SaveSingle ==
  \E cid \in {NoId} \cup Ids(clients) \cup RemoteIds, nom1 \in LocalNames :
       SaveClient("s1", cid, nom1, "unite", "x")

Inbound ==
  \E cid \in Ids(clients) \cup RemoteIds, nom1 \in RemoteNames, t2 \in Times :
       HandleClientUpdateRead(cid, nom1, t2)

Delete == \E id \in Ids(clients) : DeleteClient(id)

Put ==
  \E id \in CacheIds \cup {NoId}, nom1 \in LocalNames \cup RemoteNames :
       PutFallback(id, nom1)

Batch == \E p \in Procs, type \in Types, rnd \in Suffixes : BatchSave(p, type, rnd)

\* saves by two callers, deliveries that succeed and deliveries that fail
NextCaller ==
  \/ SaveUnite
  \/ \E p \in Procs : DeliverOk(p)
  \/ \E p \in Procs : MarkDone(p)
  \/ \E p \in Procs : DeliverFail(p)
  \/ \E p \in Procs : DelayDone(p)
  \/ Tick

SpecCaller == Init /\ [][NextCaller]_vars

\* saveClient with valid and invalid arguments, successful deliveries
NextValidate ==
  \/ SaveAny
  \/ \E p \in Procs : DeliverOk(p)
  \/ \E p \in Procs : MarkDone(p)
  \/ Tick

SpecValidate == Init /\ [][NextValidate]_vars

\* saves whose writes fail, with their recoveries, besides saves that succeed
NextRecovery ==
  \/ SaveSingle
  \/ SaveFails
  \/ Retry
  \/ Recovery
  \/ \E p \in Procs : BackoffDone(p)
  \/ \E p \in Procs : DeliverOk(p)
  \/ \E p \in Procs : MarkDone(p)
  \/ Tick

SpecRecovery == Init /\ [][NextRecovery]_vars

\* the drain when the delivery or the write of the synced flag can fail
NextMark ==
  \/ SaveUnite
  \/ \E p \in Procs : DeliverOk(p)
  \/ \E p \in Procs : MarkDone(p)
  \/ \E p \in Procs : MarkFail(p)
  \/ \E p \in Procs : DeliverFail(p)
  \/ \E p \in Procs : DelayDone(p)

SpecMark == Init /\ [][NextMark]_vars

\* saves, the drain, the forced sync and inbound updates
NextObfuscation ==
  \/ SaveSingle
  \/ \E p \in Procs : DeliverOk(p)
  \/ \E p \in Procs : MarkDone(p)
  \/ \E p \in Procs : DeliverFail(p)
  \/ \E p \in Procs : DelayDone(p)
  \/ ForceFullSync
  \/ ForceDeliverOk
  \/ ForceDeliverFail
  \/ Inbound
  \/ HandleClientUpdateWrite
  \/ Tick

SpecObfuscation == Init /\ [][NextObfuscation]_vars

\* no drain is in progress
Quiet == \A p \in Procs : pc[p] = "idle"

\* saves, payments and successful deliveries, then one import, called when
\* nothing else is in progress and with no other save until it has returned
NextImport ==
  \/ (batch.kind = "none" /\ SaveSingle)
  \/ \E p \in Procs : DeliverOk(p)
  \/ \E p \in Procs : MarkDone(p)
  \/ Pay
  \/ (Quiet /\ Import)
  \/ Batch
  \/ BatchDone
  \/ Tick

SpecImport == Init /\ [][NextImport]_vars

\* one sensitive field value and one secret, transformed and revealed
InitCrypt ==
  /\ clients = {}
  /\ syncQueue = <<>>
  /\ items = <<>>
  /\ isSyncing = FALSE
  /\ pc = [p \in Procs |-> "idle"]
  /\ cur = [p \in Procs |-> 0]
  /\ now = 1
  /\ updPending = {}
  /\ forceBatch = {}
  /\ clearPc = "idle"
  /\ last = NoOp("init")
  /\ fallback = <<>>
  /\ syncEvent = NoEvent
  /\ backupRequested = FALSE
  /\ putLog = <<>>
  /\ batch = NoBatch
  /\ \E key \in Keys, v \in Strings :
       crypt = [NoCrypt EXCEPT !.step = "plain", !.secret = key, !.value = v]
  /\ payments = {}
  /\ call = [p \in Procs |-> NoCall]
  /\ request = NoRequest
  /\ job = [p \in Procs |-> NoJob]
  /\ metrics = NoMetrics
  /\ secret = NoSecret
  /\ incoming = {}
  /\ backups = {}
  /\ db = OpenDb
  /\ link = NoLink
  /\ deleted = {}

NextCrypt == Transform \/ Reveal

SpecCrypt == InitCrypt /\ [][NextCrypt]_vars

\* the caches saveToFallback can leave: distinct ids, at most FallbackCap entries
Caches ==
  {c \in UNION {[1..n -> [id : CacheIds \cup {NoId}, nom1 : LocalNames \cup RemoteNames]] :
                  n \in 0..FallbackCap} :
     \A i, j \in 1..Len(c) : i # j => c[i].id # c[j].id}

\* startup: the clients store is empty, the fallback cache holds earlier records
InitRestore ==
  /\ clients = {}
  /\ syncQueue = <<>>
  /\ items = <<>>
  /\ isSyncing = FALSE
  /\ pc = [p \in Procs |-> "idle"]
  /\ cur = [p \in Procs |-> 0]
  /\ now = 1
  /\ updPending = {}
  /\ forceBatch = {}
  /\ clearPc = "idle"
  /\ last = NoOp("init")
  /\ fallback \in Caches
  /\ syncEvent = NoEvent
  /\ backupRequested = FALSE
  /\ putLog = <<>>
  /\ batch = NoBatch
  /\ crypt = NoCrypt
  /\ payments = {}
  /\ call = [p \in Procs |-> NoCall]
  /\ request = NoRequest
  /\ job = [p \in Procs |-> NoJob]
  /\ metrics = NoMetrics
  /\ secret = NoSecret
  /\ incoming = {}
  /\ backups = {}
  /\ db = OpenDb
  /\ link = NoLink
  /\ deleted = {}

\* the restore at startup and the drain it starts; every delivery succeeds
NextRestore ==
  \/ RestoreFromBackupIfNeeded
  \/ Batch
  \/ BatchDone
  \/ \E p \in Procs : DeliverOk(p)
  \/ \E p \in Procs : MarkDone(p)
  \/ Tick

SpecRestore == InitRestore /\ [][NextRestore]_vars

\* the fallback cache under a sequence of saveToFallback calls
NextFallback == Put

SpecFallback == Init /\ [][NextFallback]_vars

\* the sync queue: save and enqueue, the drain, the sweep, clear and reset
NextQueue ==
  \/ SaveUnite
  \/ \E p \in Procs : DeliverOk(p)
  \/ \E p \in Procs : MarkDone(p)
  \/ \E p \in Procs : DeliverFail(p)
  \/ \E p \in Procs : DelayDone(p)
  \/ ClearStart
  \/ ClearFinish
  \/ ResetDatabase

SpecQueue == Init /\ [][NextQueue]_vars

\* the sync queue without clearAllData and resetDatabase
NextSweep ==
  \/ Save
  \/ \E p \in Procs : DeliverOk(p)
  \/ \E p \in Procs : MarkDone(p)
  \/ \E p \in Procs : DeliverFail(p)
  \/ \E p \in Procs : DelayDone(p)
  \/ ProcessSync

SpecSweep == Init /\ [][NextSweep]_vars

\* the sync queue when every delivery fails
NextFail ==
  \/ Save
  \/ \E p \in Procs : DeliverFail(p)
  \/ \E p \in Procs : DelayDone(p)
  \/ ProcessSync
  \/ ClearStart
  \/ ClearFinish
  \/ ResetDatabase

SpecFail == Init /\ [][NextFail]_vars

\* every delivery succeeds; saves, inbound updates and the sweep
NextOk ==
  \/ Save
  \/ \E p \in Procs : DeliverOk(p)
  \/ \E p \in Procs : MarkDone(p)
  \/ ProcessSync
  \/ Inbound
  \/ HandleClientUpdateWrite
  \/ Tick

SpecOk == Init /\ [][NextOk]_vars

\* inbound admin updates and deletions against local saves
NextInbound ==
  \/ SaveSingle
  \/ \E p \in Procs : DeliverOk(p)
  \/ \E p \in Procs : MarkDone(p)
  \/ Inbound
  \/ HandleClientUpdateWrite
  \/ Delete
  \/ Tick

SpecInbound == Init /\ [][NextInbound]_vars

\* the record store: saveClientDirect, markClientAsSynced, markAsSynced and
\* deleteClient, the operations that write the clients store
NextStore ==
  \/ SaveSingle
  \/ \E p \in Procs : DeliverOk(p)
  \/ \E p \in Procs : MarkDone(p)
  \/ ForceFullSync
  \/ ForceDeliverOk
  \/ ForceDeliverFail
  \/ Delete
  \/ Tick

SpecStore == Init /\ [][NextStore]_vars

\* new EnhancedBilletDB(): this.encryptionKey is read from localStorage, line 18
Construct(c) ==
  /\ secret.state[c] = "none"
  /\ secret' = [secret EXCEPT !.state[c] = "constructed", !.key[c] = secret.stored]
  /\ last' = NoOp("other")
  /\ UNCHANGED <<clients, syncQueue, items, isSyncing, pc, cur, now, updPending, forceBatch, clearPc>>
  /\ UNCHANGED effects
  /\ UNCHANGED <<putLog, batch, crypt, payments, request, job, metrics, call, incoming, backups, db, link, deleted>>

\* ensureEncryptionKey 673-679: a context whose own copy is empty generates a
\* key and writes it to localStorage
ensureEncryptionKey(c, r) ==
  IF secret.key[c] # NoKey
    THEN [secret EXCEPT !.state[c] = "ready"]
    ELSE [secret EXCEPT !.state[c] = "ready",
                        !.key[c] = generateKey(now, r),
                        !.stored = generateKey(now, r)]

\* init() of a constructed context: request.onsuccess 42-63 ends with
\* ensureEncryptionKey
InitDone(c) ==
  /\ secret.state[c] = "constructed"
  /\ \E r \in Randoms : secret' = ensureEncryptionKey(c, r)
  /\ last' = NoOp("other")
  /\ UNCHANGED <<clients, syncQueue, items, isSyncing, pc, cur, now, updPending, forceBatch, clearPc>>
  /\ UNCHANGED effects
  /\ UNCHANGED <<putLog, batch, crypt, payments, request, job, metrics, call, incoming, backups, db, link, deleted>>

\* several contexts on one localStorage: construction and init interleave
NextSecret ==
  \/ \E c \in Contexts : Construct(c)
  \/ \E c \in Contexts : InitDone(c)
  \/ Tick

SpecSecret == Init /\ [][NextSecret]_vars

\* processIncomingClient 894-896: getClient(clientData.id); an event whose id
\* is in the store is dropped, the other one goes on to saveClient
ProcessIncomingRead(cid, nom1) ==
  /\ Cardinality(incoming) < MaxItems
  /\ IF Has(clients, cid)
     THEN /\ last' = [NoOp("incomingSkipped") EXCEPT !.existed = TRUE]
          /\ UNCHANGED incoming
     ELSE /\ last' = NoOp("incomingRead")
          /\ incoming' = incoming \cup {[id |-> cid, nom1 |-> nom1]}
  /\ UNCHANGED <<clients, syncQueue, items, isSyncing, pc, cur, now, updPending, forceBatch, clearPc>>
  /\ UNCHANGED effects
  /\ UNCHANGED <<putLog, batch, crypt, payments, request, job, metrics, call, secret, backups, db, link, deleted>>

\* processIncomingClient 897-899: saveClient(clientData) after the read
\* found nothing
ProcessIncomingWrite ==
  \E u \in incoming :
    /\ incoming' = incoming \ {u}
    /\ saveClientWithRecovery("s2", u.id, u.nom1, "unite", "x")
    /\ UNCHANGED <<putLog, batch, crypt, payments, request, job, metrics, secret, backups, db, link, deleted>>

\* the storage event of setupCrossPageListener 873-892 with action new_client
ProcessIncoming ==
  \E cid \in Ids(clients) \cup RemoteIds, nom1 \in RemoteNames :
       ProcessIncomingRead(cid, nom1)

\* new_client events of other contexts against local saves and deletions
NextReconcile ==
  \/ SaveSingle
  \/ \E p \in Procs : DeliverOk(p)
  \/ \E p \in Procs : MarkDone(p)
  \/ ProcessIncoming
  \/ ProcessIncomingWrite
  \/ Delete

SpecReconcile == Init /\ [][NextReconcile]_vars

\* createBackup 1436-1470: a dated snapshot of the clients and the payments
CreateBackup ==
  /\ backups' = put(backups, snapshot(datedId(now), now, clients, payments))
  /\ last' = NoOp("createBackup")
  /\ UNCHANGED <<core, effects, putLog, batch, crypt, payments, call, request, job, metrics, secret, incoming, db, link, deleted>>

\* createAutoBackup 927-949: the snapshot of the reserved id
CreateAutoBackup ==
  /\ backups' = put(backups, snapshot(AutoId, now, clients, payments))
  /\ last' = NoOp("createAutoBackup")
  /\ UNCHANGED <<core, effects, putLog, batch, crypt, payments, call, request, job, metrics, secret, incoming, db, link, deleted>>

\* restoreBackup 1233-1248: the snapshot is read; without one the call
\* throws "Sauvegarde non trouvée", with one batchSaveClients(backup.clients)
\* starts
RestoreBackup(id) ==
  /\ batch.kind = "none" \/ batch.done
  /\ IF findBackup(backups, id) = {}
     THEN /\ last' = [NoOp("restoreFailed") EXCEPT !.arg = id]
          /\ UNCHANGED batch
     ELSE /\ metrics.backupRestored < MaxCount
          /\ LET b == CHOOSE x \in findBackup(backups, id) : TRUE
             IN batch' = [NoBatch EXCEPT !.kind = "restoreBackup", !.doc = b.clients,
                                         !.todo = b.clients, !.pay = b.payments,
                                         !.before = clients]
          /\ last' = [NoOp("restoreBackup") EXCEPT !.arg = id]
  /\ UNCHANGED <<core, effects, putLog, crypt, payments, call, request, job, metrics, secret, incoming, backups, db, link, deleted>>

\* cleanupOldData 951-972 called on its own
CleanupOldData ==
  /\ backups' = cleanupOldData(backups)
  /\ fallback' = <<>>
  /\ syncEvent' = NoEvent
  /\ last' = NoOp("cleanup")
  /\ UNCHANGED <<core, backupRequested, putLog, batch, crypt, payments, call, request, job, metrics, secret, incoming, db, link, deleted>>

\* the ids restoreBackup is called with
BackupIds == {AutoId} \cup {datedId(t) : t \in Times}

Restore == \E id \in BackupIds : RestoreBackup(id)

\* savePayment of one payment, with either status
PayOne == \E status \in PaymentStatuses : SavePayment("p1", status)

\* batchSaveClients of restoreBackup: the next record of the snapshot
RestoreSave == batch.kind = "restoreBackup" /\ BatchSave("s1", "unite", "x")

\* saves, payments and snapshots, then restoreBackup called when nothing
\* else is in progress and with no other write until it has returned
NextBackup ==
  \/ (batch.kind = "none" /\ SaveSingle)
  \/ \E p \in Procs : DeliverOk(p)
  \/ \E p \in Procs : MarkDone(p)
  \/ (batch.kind = "none" /\ PayOne)
  \/ (batch.kind = "none" /\ CreateBackup)
  \/ (Quiet /\ Restore)
  \/ RestoreSave
  \/ BatchDone

SpecBackup == Init /\ [][NextBackup]_vars

\* the times of the snapshots made in earlier sessions
MaxStamp == 6
Stamps == 1..MaxStamp

\* the backups store after createBackup at the times of dated and
\* createAutoBackup last at time auto (0: never)
storedBackups(dated, auto) ==
  {snapshot(datedId(t), t, {}, {}) : t \in dated}
    \cup (IF auto = 0 THEN {} ELSE {snapshot(AutoId, auto, {}, {})})

\* a device that holds snapshots of earlier sessions
InitPrune ==
  /\ clients = {}
  /\ syncQueue = <<>>
  /\ items = <<>>
  /\ isSyncing = FALSE
  /\ pc = [p \in Procs |-> "idle"]
  /\ cur = [p \in Procs |-> 0]
  /\ now = MaxStamp
  /\ updPending = {}
  /\ forceBatch = {}
  /\ clearPc = "idle"
  /\ last = NoOp("init")
  /\ fallback = <<>>
  /\ syncEvent = NoEvent
  /\ backupRequested = FALSE
  /\ putLog = <<>>
  /\ batch = NoBatch
  /\ crypt = NoCrypt
  /\ payments = {}
  /\ call = [p \in Procs |-> NoCall]
  /\ request = NoRequest
  /\ job = [p \in Procs |-> NoJob]
  /\ metrics = NoMetrics
  /\ secret = NoSecret
  /\ incoming = {}
  /\ \E dated \in SUBSET Stamps, auto \in {0} \cup Stamps :
       backups = storedBackups(dated, auto)
  /\ db = OpenDb
  /\ link = NoLink
  /\ deleted = {}

\* snapshots and cleanupOldData
NextPrune ==
  \/ CreateBackup
  \/ CreateAutoBackup
  \/ CleanupOldData

SpecPrune == InitPrune /\ [][NextPrune]_vars

\* the versions a database left by an earlier release can have (0: none)
OlderVersions == {0, version - 1}

\* a database left by an earlier release, init() not yet called; another
\* page may hold a connection to it
OlderDbs ==
  {[state |-> "closed", version |-> v, stores |-> s, indexes |-> ix,
    others |-> o, blocked |-> FALSE, upgraded |-> FALSE] :
     v \in OlderVersions, s \in SUBSET Tables, ix \in SUBSET baseIndexNames,
     o \in BOOLEAN}

InitOpen ==
  /\ clients = {}
  /\ syncQueue = <<>>
  /\ items = <<>>
  /\ isSyncing = FALSE
  /\ pc = [p \in Procs |-> "idle"]
  /\ cur = [p \in Procs |-> 0]
  /\ now = 1
  /\ updPending = {}
  /\ forceBatch = {}
  /\ clearPc = "idle"
  /\ last = NoOp("init")
  /\ fallback = <<>>
  /\ syncEvent = NoEvent
  /\ backupRequested = FALSE
  /\ putLog = <<>>
  /\ batch = NoBatch
  /\ crypt = NoCrypt
  /\ payments = {}
  /\ call = [p \in Procs |-> NoCall]
  /\ request = NoRequest
  /\ job = [p \in Procs |-> NoJob]
  /\ metrics = NoMetrics
  /\ secret = NoSecret
  /\ incoming = {}
  /\ backups = {}
  /\ db \in {d \in OlderDbs :
               /\ d.version = 0 => d.stores = {}
               /\ "clients" \notin d.stores => d.indexes = {}}
  /\ link = NoLink
  /\ deleted = {}

\* what a step of init() leaves alone
OpenFrame ==
  /\ UNCHANGED <<core, effects>>
  /\ UNCHANGED <<putLog, batch, crypt, payments, call, request, job, metrics, secret, incoming, backups, link, deleted>>

\* init() 25-35: indexedDB.open(dbName, version), the promise is pending
OpenStart ==
  /\ db.state = "closed"
  /\ db' = [db EXCEPT !.state = "pending"]
  /\ last' = NoOp("open")
  /\ OpenFrame

\* request.onerror 37-40: the promise is rejected
OpenError ==
  /\ db.state = "pending"
  /\ db' = [db EXCEPT !.state = "failed"]
  /\ last' = NoOp("openError")
  /\ OpenFrame

\* request.onblocked 109-111: another connection is open when an upgrade is
\* needed; the handler logs a warning
OpenBlocked ==
  /\ db.state = "pending"
  /\ db.version < version
  /\ db.others
  /\ ~db.blocked
  /\ db' = [db EXCEPT !.blocked = TRUE]
  /\ last' = NoOp("openBlocked")
  /\ OpenFrame

\* the other pages close their connections
OthersClose ==
  /\ db.others
  /\ db' = [db EXCEPT !.others = FALSE]
  /\ last' = NoOp("other")
  /\ OpenFrame

\* request.onupgradeneeded 65-107
Upgrade ==
  /\ db.state = "pending"
  /\ db.version < version
  /\ ~db.others
  /\ db' = [onupgradeneeded(db) EXCEPT !.upgraded = TRUE]
  /\ last' = NoOp("upgrade")
  /\ OpenFrame

\* request.onsuccess 42-63: the promise is resolved
OpenSuccess ==
  /\ db.state = "pending"
  /\ db.version = version
  /\ db' = [db EXCEPT !.state = "open"]
  /\ last' = NoOp("openSuccess")
  /\ OpenFrame

\* init() on a database left by an earlier release
NextOpen ==
  \/ OpenStart
  \/ OpenError
  \/ OpenBlocked
  \/ OthersClose
  \/ Upgrade
  \/ OpenSuccess

SpecOpen == InitOpen /\ [][NextOpen]_vars

\* saveClientDirect 554-596: store.put is called, its request is pending
SaveWrite(cid, nom1) ==
  /\ link.open
  /\ link.put = {}
  /\ Len(items) < MaxItems
  /\ link' = [link EXCEPT !.put = {[id |-> cid, nom1 |-> nom1]}]
  /\ last' = NoOp("write")
  /\ UNCHANGED <<clients, syncQueue, items, isSyncing, pc, cur, now, updPending, forceBatch, clearPc>>
  /\ UNCHANGED effects
  /\ UNCHANGED <<putLog, batch, crypt, payments, request, job, metrics, call, secret, incoming, backups, db, deleted>>

\* saveClientDirect 603-613 and saveClientWithRecovery 526-528: the put
\* succeeded (a connection that was closed meanwhile completes its
\* transactions), then enqueueForSync
SaveCommitted(p) ==
  /\ pc[p] = "idle"
  /\ \E u \in link.put :
       saveCompletes(p, u.id, u.nom1, "unite", "x",
                     IF link.open THEN "open" ELSE "closed")
  /\ link' = [link EXCEPT !.put = {}]
  /\ UNCHANGED <<putLog, batch, crypt, payments, request, job, metrics, secret, incoming, backups, db, deleted>>

\* resetDatabase 1381-1396 until deleteDatabase is called: the connection is
\* closed, this.db = null, the queue replaced, the flag cleared
ResetClose ==
  /\ link.open
  /\ clients' = {}
  /\ payments' = {}
  /\ backups' = {}
  /\ syncQueue' = <<>>
  /\ items' = Collect(items, <<>>, cur)
  /\ isSyncing' = FALSE
  /\ link' = [link EXCEPT !.open = FALSE]
  /\ last' = NoOp("other")
  /\ UNCHANGED <<pc, cur, now, updPending, forceBatch, clearPc>>
  /\ UNCHANGED effects
  /\ UNCHANGED <<putLog, batch, crypt, call, request, job, metrics, secret, incoming, db, deleted>>

\* init() called through ensureConnection by another operation resolves
Reconnect ==
  /\ ~link.open
  /\ link.sweep = "idle"
  /\ link' = [link EXCEPT !.open = TRUE]
  /\ last' = NoOp("other")
  /\ UNCHANGED <<core, effects>>
  /\ UNCHANGED <<putLog, batch, crypt, payments, call, request, job, metrics, secret, incoming, backups, db, deleted>>

\* processSync 165-181 with the connection closed: the flag is set,
\* processSyncQueue returns at 225, getUnsyncedClients awaits init()
SweepStart ==
  /\ ~isSyncing
  /\ ~link.open
  /\ link.sweep = "idle"
  /\ metrics.syncFailures < MaxCount
  /\ isSyncing' = TRUE
  /\ link' = [link EXCEPT !.sweep = "connecting"]
  /\ last' = NoOp("sweepStart")
  /\ UNCHANGED <<clients, syncQueue, items, pc, cur, now, updPending, forceBatch, clearPc>>
  /\ UNCHANGED effects
  /\ UNCHANGED <<putLog, batch, crypt, payments, call, request, job, metrics, secret, incoming, backups, db, deleted>>

\* processSync 198-203: init() resolved, getUnsyncedClients rejected, the
\* catch counts a failure, the finally clears the flag
SweepEnd ==
  /\ link.sweep = "connecting"
  /\ isSyncing' = FALSE
  /\ link' = [link EXCEPT !.sweep = "idle", !.open = TRUE]
  /\ metrics' = [metrics EXCEPT !.syncFailures = @ + 1]
  /\ last' = NoOp("sweepEnd")
  /\ UNCHANGED <<clients, syncQueue, items, pc, cur, now, updPending, forceBatch, clearPc>>
  /\ UNCHANGED effects
  /\ UNCHANGED <<putLog, batch, crypt, payments, call, request, job, secret, incoming, backups, db, deleted>>

\* a save whose put is in flight when resetDatabase runs, the sweeps and
\* the drain
NextPending ==
  \/ \E cid \in {NoId} \cup RemoteIds, nom1 \in LocalNames : SaveWrite(cid, nom1)
  \/ SaveCommitted("s1")
  \/ ResetClose
  \/ Reconnect
  \/ SweepStart
  \/ SweepEnd
  \/ (link.open /\ ProcessSync)
  \/ \E p \in Procs : DeliverOk(p)
  \/ \E p \in Procs : MarkDone(p)
  \/ \E p \in Procs : DeliverFail(p)
  \/ \E p \in Procs : DelayDone(p)

SpecPending == Init /\ [][NextPending]_vars

\* timers fire and callbacks run: every sweep, every completion of a put, of
\* a delivery, of a write of the synced flag and of a delay happens
SpecPendingFair ==
  /\ SpecPending
  /\ WF_vars(SaveCommitted("s1"))
  /\ WF_vars(Reconnect)
  /\ WF_vars(SweepStart)
  /\ WF_vars(SweepEnd)
  /\ WF_vars(link.open /\ ProcessSync)
  /\ \A p \in Procs : WF_vars(DeliverOk(p) \/ DeliverFail(p))
  /\ \A p \in Procs : WF_vars(MarkDone(p))
  /\ \A p \in Procs : WF_vars(DelayDone(p))

\* local saves that give a record a new content, the drain and forced syncs
NextMarking ==
  \/ \E cid \in {NoId} \cup Ids(clients), nom1 \in LocalNames \cup RemoteNames :
       SaveClient("s1", cid, nom1, "unite", "x")
  \/ \E p \in Procs : DeliverOk(p)
  \/ \E p \in Procs : MarkDone(p)
  \/ ForceFullSync
  \/ ForceDeliverOk
  \/ ForceDeliverFail
  \/ Tick

SpecMarking == Init /\ [][NextMarking]_vars

\* every path that writes a record: saves, the drain, the sweep, forced
\* syncs, inbound updates, imports and restores of a snapshot
\* no save, forced sync or inbound update is under way
Settled == Quiet /\ forceBatch = {} /\ updPending = {}

NextSynced ==
  \/ (batch.kind = "none" /\ SaveClient("s1", NoId, "A", "unite", "x"))
  \/ \E p \in Procs : DeliverOk(p)
  \/ \E p \in Procs : MarkDone(p)
  \/ \E p \in Procs : DeliverFail(p)
  \/ \E p \in Procs : DelayDone(p)
  \/ ProcessSync
  \/ ForceFullSync
  \/ ForceDeliverOk
  \/ ForceDeliverFail
  \/ (Settled /\ \E cid \in Ids(clients) \cup RemoteIds : HandleClientUpdateRead(cid, "B", now))
  \/ HandleClientUpdateWrite
  \/ (Settled /\ \E data \in ForeignDocuments : ImportFromJSON(data))
  \/ (Settled /\ batch.kind = "none" /\ CreateBackup)
  \/ (Settled /\ RestoreBackup(datedId(now)))
  \/ BatchSave("s1", "unite", "x")
  \/ BatchDone

SpecSynced == Init /\ [][NextSynced]_vars

\* saves on a page whose database does not open: every attempt is rejected
\* by ensureConnection with the error of the open request
NextUnsaved ==
  \/ \E cid \in {NoId} \cup RemoteIds, nom1 \in LocalNames \cup RemoteNames :
       ConnectFails("s1", cid, nom1, "unite", "UnknownError")
  \/ RetryConnectFails("s1", "UnknownError")
  \/ Recover("s1", "y", "ok")
  \/ BackoffDone("s1")
  \/ Tick

SpecUnsaved == Init /\ [][NextUnsaved]_vars

\* init 42-63 on a page load at a moment when nothing is under way: the new
\* object starts with an empty queue and calls restoreFromBackupIfNeeded
Restart == Quiet /\ syncQueue = <<>> /\ RestoreFromBackupIfNeeded

\* saves, deletions and page loads
NextDeleted ==
  \/ (batch.kind = "none" /\ SaveClient("s1", NoId, "A", "unite", "x"))
  \/ \E p \in Procs : DeliverOk(p)
  \/ \E p \in Procs : MarkDone(p)
  \/ Delete
  \/ Restart
  \/ BatchSave("s1", "unite", "x")
  \/ BatchDone
  \/ Tick

SpecDeleted == Init /\ [][NextDeleted]_vars

\* every operation of the model
Next ==
  \/ Save
  \/ \E p \in Procs : DeliverOk(p)
  \/ \E p \in Procs : MarkDone(p)
  \/ \E p \in Procs : DeliverFail(p)
  \/ \E p \in Procs : DelayDone(p)
  \/ ProcessSync
  \/ Inbound
  \/ HandleClientUpdateWrite
  \/ ForceFullSync
  \/ ForceDeliverOk
  \/ ForceDeliverFail
  \/ Delete
  \/ ClearStart
  \/ ClearFinish
  \/ ResetDatabase
  \/ Tick
  \/ Put
  \/ RestoreFromBackupIfNeeded
  \/ Batch
  \/ BatchDone
  \/ Transform
  \/ Reveal
  \/ Pay
  \/ Import
  \/ SaveAny
  \/ SaveFails
  \/ Retry
  \/ Recovery
  \/ \E p \in Procs : BackoffDone(p)
  \/ \E p \in Procs : MarkFail(p)
  \/ \E c \in Contexts : Construct(c)
  \/ \E c \in Contexts : InitDone(c)
  \/ ProcessIncoming
  \/ ProcessIncomingWrite
  \/ CreateBackup
  \/ CreateAutoBackup
  \/ Restore
  \/ CleanupOldData
  \/ OpenStart
  \/ OpenError
  \/ OpenBlocked
  \/ OthersClose
  \/ Upgrade
  \/ OpenSuccess
  \/ \E cid \in {NoId} \cup RemoteIds, nom1 \in LocalNames : SaveWrite(cid, nom1)
  \/ \E p \in Procs : SaveCommitted(p)
  \/ ResetClose
  \/ Reconnect
  \/ SweepStart
  \/ SweepEnd
  \/ \E p \in Procs, cid \in {NoId} \cup RemoteIds, nom1 \in LocalNames \cup RemoteNames,
        name \in ErrorNames : ConnectFails(p, cid, nom1, "unite", name)
  \/ \E p \in Procs, name \in ErrorNames : RetryConnectFails(p, name)

Spec == Init /\ [][Next]_vars

\* ------------------------------------------------------------ the claims

\* C1 (sync convergence, every delivery succeeds): once the queue has drained,
\* no save or inbound update is in progress and a periodic sweep has just run,
\* every stored record has synced = true and a syncedAt that is not null.
SyncConvergence ==
  (/\ last.op = "processSync"
   /\ syncQueue = <<>>
   /\ \A p \in Procs : pc[p] = "idle"
   /\ updPending = {})
    => \A c \in clients : c.synced /\ c.syncedAt # Null

\* C2 (retry ceiling, every delivery fails): when the drain drops its entry as
\* failed, that entry has been attempted exactly 3 times and has failed 3
\* times, it is no longer in the queue, and no stored record is synced.
RetryCeiling ==
  last.op = "failed"
    => /\ last.attempts = 3
       /\ last.retries = 3
       /\ last.ref \notin Refs(syncQueue)
       /\ \A c \in clients : ~c.synced

\* C3 (periodic sweep): right after a sweep, every stored record with
\* synced = false is the client of an entry of the sync queue.
PeriodicSweep ==
  last.op = "processSync"
    => \A c \in clients : ~c.synced => c.id \in QueuedClients

\* C4 (conflict resolution): an inbound update is ignored only when a local
\* record existed whose lastUpdated t1 has t2 <= t1, and then the store is left
\* as it was; it is accepted only when no local record existed or t2 > t1, and
\* then the inbound record is what the store holds for that id.
ConflictResolution ==
  /\ [](last.op = "updateIgnored" => last.existed /\ last.cmp \in {"lt", "eq"})
  /\ [](last.op \in {"updateAccepted", "updateApplied"}
          => ~last.existed \/ last.cmp = "gt")
  /\ [][last'.op = "updateIgnored" => clients' = clients]_vars
  /\ [][last'.op = "updateApplied"
          => \E u \in updPending :
               /\ Has(clients', u.id)
               /\ Get(clients', u.id).nom1 = u.nom1
               /\ Cardinality({c \in clients' : c.id = u.id}) = 1
               /\ {c \in clients' : c.id # u.id} = {c \in clients : c.id # u.id}]_vars

\* C4 witness: an inbound update newer than the local record has overwritten it
ConflictResolutionReached ==
  last.op = "updateApplied" /\ last.existed /\ last.cmp = "gt"

\* C5 (single active drain): at most one caller is inside the drain loop
SingleActiveDrain == Cardinality({p \in Procs : pc[p] # "idle"}) <= 1

\* C6 (queue ordering): the queue holds its entries in the order they were
\* enqueued, no entry behind the head has been attempted, and every step that
\* starts an attempt starts it on the entry at the head of the queue.
QueueOrdering ==
  /\ [](\A i \in 2..Len(syncQueue) :
          /\ syncQueue[i - 1] < syncQueue[i]
          /\ items[syncQueue[i]].attempts = 0
          /\ items[syncQueue[i]].status = "pending")
  /\ [][\A i \in DOMAIN items :
          items'[i].attempts > items[i].attempts
            => Len(syncQueue') > 0 /\ syncQueue'[1] = i]_vars

\* C6 witness: the head has failed and waits for its retry, an entry is behind it
QueueOrderingReached ==
  /\ Len(syncQueue) >= 2
  /\ \E p \in Procs : pc[p] = "delay" /\ cur[p] = syncQueue[1]
  /\ items[syncQueue[1]].retries > 0

\* C7 (removal from the queue): the entry a drain removes with shift() is an
\* entry whose delivery succeeded or whose retries reached the ceiling.
RemovalOnlyOfAttempted ==
  last.op \in {"synced", "failed"} => last.removed \in {"synced", "failed", "none"}

\* C8 (id uniqueness): a save that generates the id never generates the id of
\* a record that is in the store.
IdUniqueness == ~(last.op = "save" /\ last.generated /\ last.existed)

\* C9 (monotonic update): every step that changes the stored record of an id
\* stores a lastUpdated strictly greater than the one stored before.
MonotonicUpdate ==
  [][\A c \in clients : \A d \in clients' :
       (c.id = d.id /\ c # d) => d.lastUpdated > c.lastUpdated]_vars

\* C10 (store invariant): the store holds one record per id, and every record
\* with synced = true has a syncedAt that is not null.
StoreInvariant ==
  /\ Cardinality(Ids(clients)) = Cardinality(clients)
  /\ \A c \in clients : c.synced => c.syncedAt # Null

\* C10 witness: two records, one marked synced, one written unsynced after
\* the clock advanced
StoreInvariantReached ==
  /\ Cardinality(clients) >= 2
  /\ \E c \in clients : c.synced
  /\ \E c \in clients : ~c.synced /\ c.lastUpdated > 1

\* C12 (fallback cache bound): the cache holds at most FallbackCap entries, no
\* two with the same id, and they are, in the order of the calls, the last
\* FallbackCap of the records put, each id counted at its latest put only.
FallbackBound ==
  LET live == {i \in 1..Len(putLog) :
                 \A j \in (i + 1)..Len(putLog) : putLog[j].id # putLog[i].id}
      n == Len(fallback)
  IN /\ n <= FallbackCap
     /\ \A i, j \in 1..n : i # j => fallback[i].id # fallback[j].id
     /\ n = IF Cardinality(live) > FallbackCap THEN FallbackCap ELSE Cardinality(live)
     /\ \E f \in [1..n -> live] :
          /\ \A k \in 1..n : fallback[k] = putLog[f[k]]
          /\ \A k \in 1..(n - 1) : f[k] < f[k + 1]
          /\ \A i \in live : (\A k \in 1..n : f[k] # i) => i < f[1]

\* C12 witness: more distinct ids were put than the cache holds, one of them twice
FallbackBoundReached ==
  /\ Len(fallback) = FallbackCap
  /\ Cardinality({putLog[i].id : i \in 1..Len(putLog)}) > FallbackCap
  /\ \E i, j \in 1..Len(putLog) :
       i < j /\ putLog[i].id = putLog[j].id /\ putLog[i].nom1 # putLog[j].nom1

RoundTrip == crypt.step = "revealed" => crypt.revealed = crypt.value

\* C14 (export/import idempotence): when importFromJSON of a document that
\* is the export of the store as it was has completed, the store holds the
\* records it held, with the content they had.
ImportIdempotent ==
  (/\ batch.kind = "import"
   /\ batch.doc = getAllClients(batch.before)
   /\ batch.done)
    => clients = batch.before

\* C15 (import replays clients and payments): when importFromJSON has
\* completed, every client and every payment of the document is stored.
ImportReplaysAll ==
  (batch.kind = "import" /\ batch.done)
    => /\ \A i \in 1..Len(batch.doc) : Has(clients, batch.doc[i].id)
       /\ batch.pay \subseteq payments

\* C16 (delivery failures are not surfaced): a save whose local write
\* succeeded is never rejected, it has returned the stored record once the
\* drain it awaits has returned, whatever the deliveries did, and the record
\* is in the store.
DeliveryFailuresHidden ==
  \A p \in Procs :
    call[p].outcome # "none"
      => /\ call[p].outcome \in {"pending", "resolved"}
         /\ (pc[p] = "idle" => call[p].outcome = "resolved")
         /\ Has(clients, call[p].value.id)
         /\ Get(clients, call[p].value.id).nom1 = call[p].value.nom1

\* a save has returned after the delivery of its record was given up
DeliveryFailuresHiddenReached ==
  \E p \in Procs :
    /\ call[p].outcome = "resolved"
    /\ pc[p] = "idle"
    /\ last.op = "failed"
    /\ last.retries = maxRetries
    /\ ~Get(clients, call[p].value.id).synced

\* the arguments the contract calls invalid: nom1 or type missing, email or
\* phone malformed, type outside {unite, couple}
Invalid(c) ==
  \/ trim(c.nom1) = NoText
  \/ c.type = ""
  \/ c.email \in BadEmails
  \/ c.phone \in BadPhones
  \/ c.type \notin {"unite", "couple"}

\* C17 (validation errors): a saveClient call whose argument is invalid is
\* rejected with a validation error and changes neither the store, the
\* fallback cache, the backups, the sync queue nor the change channel.
ValidationRejects ==
  [][(request' # request /\ Invalid(request'.client))
       => /\ call'[request'.p].outcome = "rejected"
          /\ call'[request'.p].error = "Validation failed"
          /\ UNCHANGED <<clients, payments, fallback, backupRequested, syncEvent,
                         syncQueue, items, isSyncing>>]_vars

\* an invalid argument was rejected while the store holds a record
ValidationRejectsReached ==
  /\ request.p \in Procs
  /\ Invalid(request.client)
  /\ call[request.p].outcome = "rejected"
  /\ last.op = "invalid"
  /\ clients # {}

\* the entries of the queue that carry the record id
QueuedCount(q, its, id) == Cardinality({i \in 1..Len(q) : its[q[i]].client = id})

\* C19 (save side effects): a successful save writes the record to the
\* fallback cache, requests a backup, publishes a change event carrying the
\* record and appends exactly one entry for the record to the sync queue.
SaveSideEffects ==
  [][last'.op = "save"
       => \E rec \in {decryptRecord(c) : c \in clients'} :
            /\ \E p \in Procs : call'[p].value = rec
            /\ Len(fallback') > 0
            /\ fallback'[Len(fallback')] = fallbackEntry(rec)
            /\ backupRequested'
            /\ syncEvent' = rec.id
            /\ Len(syncQueue') = Len(syncQueue) + 1
            /\ QueuedCount(syncQueue', items', rec.id)
                 = QueuedCount(syncQueue, items, rec.id) + 1]_vars

\* a save made while a drain is delivering an earlier record
SaveSideEffectsReached ==
  /\ last.op = "save"
  /\ Len(syncQueue) = 2
  /\ \E p \in Procs : pc[p] = "deliver"
  /\ Len(fallback) = 2

\* the record a saveClient step stored has the defaults of a new record
StoredWithDefaults ==
  (last'.op = "save" /\ request'.p \in Procs)
    => LET rec == call'[request'.p].value
       IN /\ rec \in {decryptRecord(c) : c \in clients'}
          /\ rec.id[1] = (IF request'.client.type = "couple" THEN "CPL" ELSE "UNI")
          /\ ~rec.synced
          /\ rec.syncedAt = Null
          /\ rec.paiement = "En attente"

\* the record of a save that returns is read back with synced = false
UnsyncedAtReturn ==
  \A p \in Procs :
    (call[p].outcome # "resolved" /\ call'[p].outcome = "resolved")
      => /\ Has(clients', call'[p].value.id)
         /\ ~Get(clients', call'[p].value.id).synced

\* a record becomes synced only when its delivery has succeeded
SyncedOnlyAfterDelivery ==
  \A c \in clients' :
    (c.synced /\ ~(Has(clients, c.id) /\ Get(clients, c.id).synced))
      => \E p \in Procs :
           /\ pc[p] = "mark"
           /\ items[cur[p]].client = c.id
           /\ items[cur[p]].status = "synced"

\* C20 (a saved record): the record gets an id with prefix CPL for a couple
\* and UNI otherwise, is stored with synced = false, syncedAt = null and the
\* payment pending; it is read back with synced = false when save returns,
\* and becomes synced only after a successful delivery of that record.
SavedRecord ==
  [][StoredWithDefaults /\ UnsyncedAtReturn /\ SyncedOnlyAfterDelivery]_vars

\* C18 (storage write failures): a save that ends after a failed write made
\* at most 3 attempts, has written the record to the fallback cache, raises
\* the error of its last attempt, and has not enqueued the record.
StorageFailureHandled ==
  [][\A p \in Procs :
       (job[p].state \in {"recover", "retry"} /\ pc'[p] = "idle"
        /\ call'[p].outcome = "rejected")
         => /\ job'[p].attempt + 1 <= saveMaxRetries + 1
            /\ call'[p].error = job'[p].lastError
            /\ Len(fallback') > 0
            /\ fallback'[Len(fallback')] = [id |-> job'[p].id, nom1 |-> job'[p].nom1]
            /\ Len(syncQueue') <= Len(syncQueue)]_vars

\* C21 (failure metric): when an entry has been dropped as failed, the sync
\* failure counter is greater than it was before the entry's first attempt;
\* the counter starts at 0 and never decreases, so it is positive.
DropRecordsFailure == last.op = "failed" => metrics.syncFailures > 0

\* the status changes a queue entry may make
Transitions ==
  {<<"pending", "processing">>, <<"processing", "synced">>,
   <<"processing", "pending">>, <<"processing", "failed">>}

\* C22 (entry state machine): the status of an entry changes only along
\* pending -> processing -> synced | pending | failed, and an entry that is
\* synced is not delivered again.
EntryStateMachine ==
  [][\A i \in 1..Len(items) :
       LET a == items[i].status
           b == items'[i].status
       IN /\ (a = b \/ b = "collected" \/ <<a, b>> \in Transitions)
          /\ (a = "synced" /\ b # "collected"
                => items'[i].attempts = items[i].attempts)]_vars

\* transformed exactly once, the tag set
Once(c) == c.encrypted /\ c.layers = 1

\* C23 (obfuscation at rest and on exit): every record of the store, every
\* record a drain is delivering and every record a forced sync is delivering
\* has its sensitive fields transformed exactly once.
ObfuscatedOnce ==
  /\ \A c \in clients : Once(c)
  /\ \A p \in Procs : pc[p] = "deliver" => \A c \in syncWithAdmin({items[cur[p]]}) : Once(c)
  /\ \A c \in syncWithAdmin(forceBatch) : Once(c)


\* C24 (one secret per device): a persisted encryption key is never replaced
\* by a different value, and every initialised context holds the persisted key.
SecretGeneratedOnce ==
  /\ [](\A c \in Contexts : secret.state[c] = "ready" => secret.key[c] = secret.stored)
  /\ [][secret.stored # NoKey => secret'.stored = secret.stored]_vars

\* C25 (apply if not present): the save that handles a new_client event
\* writes only when the store holds no record with the event's id, so it
\* never changes a record that is present.
ApplyIfNotPresent ==
  [][\A u \in incoming \ incoming' : ~Has(clients, u.id)]_vars

\* the ids of the records of a snapshot's client array
DocIds(doc) == {doc[i].id : i \in 1..Len(doc)}

\* C26 (restore): when restoreBackup has returned, every client and every
\* payment of the snapshot is in the store with the snapshot's content, and
\* every record whose id is not in the snapshot is as it was before.
RestoreComplete ==
  batch.kind = "restoreBackup" /\ batch.done =>
    /\ \A i \in 1..Len(batch.doc) :
         \E r \in clients : r.id = batch.doc[i].id /\ r.nom1 = batch.doc[i].nom1
    /\ batch.pay \subseteq payments
    /\ \A r \in batch.before : r.id \notin DocIds(batch.doc) => r \in clients

\* C27 (snapshot not found): restoreBackup called with an id that names no
\* snapshot fails and leaves the clients, the payments, the backups, the sync
\* queue and the metrics as they were.
RestoreUnknownFails ==
  [][last'.op \in {"restoreBackup", "restoreFailed"}
       /\ ~(\E b \in backups : b.id = last'.arg)
     => /\ last'.op = "restoreFailed"
        /\ UNCHANGED <<clients, payments, backups, syncQueue, items, metrics, batch, db, link, deleted>>]_vars

RestoreUnknownFailsReached ==
  /\ last.op = "restoreFailed"
  /\ backups # {}
  /\ clients # {}
  /\ payments # {}

\* C28 (prune): cleanupOldData leaves at most 5 snapshots, no deleted
\* snapshot is newer than a kept one, the snapshot of the reserved id is
\* never deleted, and the clients and the payments are unchanged.
Pruned ==
  [][last'.op = "cleanup" =>
       /\ Cardinality(backups') <= keep
       /\ backups' \subseteq backups
       /\ \A b \in backups', x \in backups \ backups' : x.timestamp <= b.timestamp
       /\ \A x \in backups \ backups' : x.id # AutoId
       /\ UNCHANGED <<clients, payments>>]_vars

\* C29 (open fails rather than hangs): once the blocked event of the open
\* request has been handled, init() has ended with a failure.
BlockedOpenFails == db.blocked => db.state = "failed"

\* the indexes of the clients store the specification requires
RequiredIndexes == baseIndexNames \cup {"type_paiement", "sync_status"}

\* C30 (schema migration): after an open that upgraded an older database the
\* three stores and every required index of the clients store exist; the
\* upgrade removes no record and applying it again changes nothing.
SchemaMigrated ==
  /\ [](db.state = "open" /\ db.upgraded =>
          Tables \subseteq db.stores /\ RequiredIndexes \subseteq db.indexes)
  /\ [][last'.op = "upgrade" =>
          /\ UNCHANGED <<clients, payments, backups>>
          /\ onupgradeneeded(db') = db']_vars

\* C31 (id collision recovery): the write retried after a ConstraintError is
\* the only retry: when it fails too, saveClientWithRecovery makes no further
\* attempt.
SingleRetryAfterCollision ==
  [][\A p \in Procs :
       /\ pc[p] = "retry"
       /\ job[p].lastError = "ConstraintError"
       /\ job'[p] # job[p]
       /\ last'.op = "writeFailed"
       => job'[p].state = "thrown"]_vars

\* C32 (the sweep drains first): a processSync that starts with a non-empty
\* queue ends with the queue empty.
SweepDrainsQueue ==
  [][last'.op = "processSync" /\ syncQueue # <<>> => syncQueue' = <<>>]_vars

\* C33 (every entry is attempted): under fair scheduling a non-empty queue
\* becomes empty: every entry is attempted and removed.
QueueEventuallyDrained == (syncQueue # <<>>) ~> (syncQueue = <<>>)

\* C34 (marking keeps the stored content): the write of the synced flag after
\* a forced sync leaves every stored record with the name it had in the
\* store just before the write.
MarkingKeepsContent ==
  [][forceBatch # {} /\ forceBatch' = {} =>
       \A c \in clients : \E r \in clients' : r.id = c.id /\ r.nom1 = c.nom1]_vars

\* C35 (deleted stays deleted): the write of the synced flag by the drain or
\* by a forced sync adds no record to the store.
SyncCreatesNothing ==
  [][(forceBatch # {} /\ forceBatch' = {}) \/ last'.op = "synced" =>
       Ids(clients') \subseteq Ids(clients)]_vars

\* C36 (conflict resolution is atomic): the write of an inbound update with
\* lastUpdated t2 replaces no stored version whose lastUpdated is greater
\* than t2 when the write runs.
NoNewerVersionReplaced ==
  [][\A u \in updPending \ updPending' :
       Has(clients, u.id) => ~(Get(clients, u.id).lastUpdated > u.t2)]_vars

\* C37 (synced only after delivery): a record gets synced = true only in the
\* step that follows a successful delivery of its id: the drain's write for
\* the entry just delivered, or the write of a forced sync for its batch.
SyncedRequiresDelivery ==
  [][\A c \in clients' :
       (c.synced /\ ~(Has(clients, c.id) /\ Get(clients, c.id).synced)) =>
         \/ \E p \in Procs : /\ pc[p] = "mark"
                             /\ items[cur[p]].client = c.id
                             /\ items[cur[p]].status = "synced"
         \/ c.id \in Ids(forceBatch) /\ forceBatch' = {}]_vars

SyncedRequiresDeliveryReached ==
  /\ \E c \in clients : c.synced
  /\ \E c \in clients : c.nom1 \in RemoteNames /\ ~c.synced
  /\ batch.done

\* C38 (failed saves are retained): when a save finally fails, its record is
\* in the fallback cache afterwards, and so is every other record the cache
\* held, unless the cache was at its capacity.
FailedSavesRetained ==
  [][\A p \in Procs :
       (pc[p] = "retry" /\ last'.op = "writeFailed" /\ job'[p].state = "thrown") =>
         /\ \E k \in 1..Len(fallback') :
               fallback'[k] = [id |-> job'[p].id, nom1 |-> job'[p].nom1]
         /\ Len(fallback) < FallbackCap =>
              \A i \in 1..Len(fallback) :
                 (fallback[i].id = NoId \/ fallback[i].id # job'[p].id) =>
                    \E k \in 1..Len(fallback') : fallback'[k] = fallback[i]]_vars

\* C39 (deleted clients stay deleted): the restore that a page load starts
\* from the fallback cache puts no record in the store whose id was removed
\* by deleteClient and is absent from the store.
DeletedStaysDeleted ==
  [][batch.kind = "restore" /\ batch'.todo # batch.todo =>
       \A c \in clients' : ~Has(clients, c.id) => c.id \notin deleted]_vars
====
